---- MODULE Spec2Model ----
(***************************************************************************)
(* Model of the package repository of the fleet installer                  *)
(* (package repository, src/unnamed/part_001 lines 145-627).               *)
(*                                                                         *)
(* The disk is the only authoritative state: the root directory, the       *)
(* version directories under it and the two symbolic links "stable" and    *)
(* "experiment".  Every public method reads a fresh snapshot               *)
(* (repositoryFiles) and then runs a sequence of filesystem primitives.    *)
(* One action of the model is one filesystem primitive of a method,        *)
(* together with the reads and checks the code makes before it, so that    *)
(* failures and interruptions between primitives are states of the model.  *)
(***************************************************************************)
EXTENDS Naturals, FiniteSets, Sequences, TLC

\* Number of distinct version identifiers a caller may use.
MaxVersions == 3

VersionNames == <<"v1", "v2", "v3", "v4", "v5", "v6">>

Versions == { VersionNames[i] : i \in 1..MaxVersions }

stableVersionLink == "stable"

experimentVersionLink == "experiment"

LinkNames == {stableVersionLink, experimentVersionLink}

\* The names a caller may pass to Create and SetExperiment.
ArgNames == Versions \cup LinkNames \cup {""}

\* link.packagePath == nil, and "no entry of that name on disk".
NoPath == "<nil>"

\* The error result of reading a link (dangling or looping reference).
ErrPath == "<err>"

\* Results of a call.
Running == "running"

Ok == "ok"

Interrupted == "interrupted"

ErrCorrupt == "could not load link"

ErrIO == "primitive failed"

ErrNoRoot == "could not read root directory"

ErrInvalidState == "link does not exist, invalid state"

ErrNoExperiment == "no experiment to promote"

ErrInvalidName == "invalid package name"

ErrExists == "target package already exists"

ErrNotEmpty == "could not delete root directory, not empty after cleanup"

VARIABLES
    rootExists,   \* the root directory exists
    dirs,         \* names of the version directories under the root
    lnk,          \* lnk[l]: base name the symbolic link l points at, or NoPath
    hooked,       \* a pre-remove hook is registered for this package
    pc,           \* position inside the running call, "idle" between calls
    op,           \* the running call, or the last one when idle
    arg,          \* the name argument of Create / SetExperiment
    mem,          \* the repositoryFiles snapshot: mem[l] = base of packagePath
    pre,          \* what the links resolved to when the call started
    preLnk,       \* what the links held when the call started
    ret,          \* result of the last call, Running during a call
    srcPresent,   \* the source directory of the call is still at sourcePath
    swept,        \* the last cleanup pass of the call: its number, its candidates,
                  \* those the hook denied and those os.RemoveAll failed on
    inflight,     \* the directory a call moved into the root without pointing
                  \* its link at it, until the next cleanup pass; NoPath otherwise
    hookErr,      \* the directories for which the pre-remove hook returns an
                  \* error together with its canDelete
    orphan,       \* the experiment directory the last SetExperiment took the
                  \* link from, until a cleanup pass runs
    pc2,          \* a second caller on the same root: its position in a Cleanup
    mem2          \* the snapshot the second caller read

vars == <<rootExists, dirs, lnk, hooked, pc, op, arg, mem, pre, preLnk, ret, srcPresent, swept,
          inflight, orphan, hookErr, pc2, mem2>>

disk == <<rootExists, dirs, lnk>>

NoMem == [l \in LinkNames |-> NoPath]

\* No cleanup pass was made in this call yet.
NoSweep == [pass |-> 0, cands |-> {}, denied |-> {}, failed |-> {}]

----------------------------------------------------------------------------
(* Link primitives.                                                        *)

\* filepath.EvalSymlinks on a name under the root: follows links until a
\* name that is not a link; a missing link or a loop is an error.
RECURSIVE EvalSymlinks(_, _, _)
EvalSymlinks(links, name, hops) ==
    IF name \notin LinkNames THEN name
    ELSE IF hops = 0 \/ links[name] = NoPath THEN ErrPath
    ELSE EvalSymlinks(links, links[name], hops - 1)

linkExists(links, l) == links[l] # NoPath

linkRead(links, l) == EvalSymlinks(links, l, Cardinality(LinkNames))

\* Variant: a link that is absent is reported as an error.
newLink_required(links, ds, l) ==
    LET p == linkRead(links, l)
    IN IF p = ErrPath \/ p \notin ds THEN ErrPath ELSE p

\* Variant: the target of the link is not looked up with os.Stat.
newLink_unchecked(links, ds, l) ==
    IF ~linkExists(links, l) THEN NoPath ELSE linkRead(links, l)

\* newLink: NoPath when the link is absent, the resolved version when it
\* resolves to an existing directory, ErrPath otherwise.
newLink(links, ds, l) ==
    IF ~linkExists(links, l) THEN NoPath
    ELSE LET p == linkRead(links, l)
         IN IF p = ErrPath \/ p \notin ds THEN ErrPath ELSE p

\* Variant: the snapshot of the Repository value's first call is kept and
\* handed out again.
readRepository_cached(links, ds) ==
    IF op = "none" THEN [l \in LinkNames |-> newLink(links, ds, l)] ELSE pre

readRepository(links, ds) == [l \in LinkNames |-> newLink(links, ds, l)]

readFailed(snapshot) == \E l \in LinkNames : snapshot[l] = ErrPath

Exists(snapshot, l) == snapshot[l] # NoPath

Target(snapshot, l) == IF Exists(snapshot, l) THEN snapshot[l] ELSE ""

\* linkSet(linkPath, path): the link now holds the base name of path.
linkSet(links, l, name) == [links EXCEPT ![l] = name]

linkDelete(links, l) == [links EXCEPT ![l] = NoPath]

\* Variant: link.Set leaves the in-memory packagePath as it was.
Set_stale(snapshot, l, name) == snapshot

\* link.Set and link.Delete, the snapshot after the primitive succeeded.
Set(snapshot, l, name) == [snapshot EXCEPT ![l] = name]

\* Variant: link.Delete leaves the in-memory packagePath as it was.
Deleted_stale(snapshot, l) == snapshot

Deleted(snapshot, l) == [snapshot EXCEPT ![l] = NoPath]

\* os.ReadDir(rootPath): the version directories and the links present.
ReadDir == dirs \cup {l \in LinkNames : lnk[l] # NoPath}

----------------------------------------------------------------------------
(* GetState.                                                               *)

\* Variant: the experiment is reported as the link holds it.
GetStateOf_raw(links, ds) ==
    LET repository == readRepository(links, ds)
    IN [err |-> readFailed(repository),
        Stable |-> Target(repository, stableVersionLink),
        Experiment |-> Target(repository, experimentVersionLink)]

GetStateOf(links, ds) ==
    LET repository == readRepository(links, ds)
        stable == Target(repository, stableVersionLink)
        experiment == Target(repository, experimentVersionLink)
    IN IF readFailed(repository) THEN [err |-> TRUE, Stable |-> "", Experiment |-> ""]
       ELSE [err |-> FALSE,
             Stable |-> stable,
             Experiment |-> IF experiment = stable THEN "" ELSE experiment]

GetState == GetStateOf(lnk, dirs)

----------------------------------------------------------------------------
(* Calls.                                                                  *)

\* Variant: the call notes the result and goes on with its next step.
Return_goesOn(r) ==
    /\ ret' = r
    /\ UNCHANGED <<pc, mem>>

Return(r) ==
    /\ pc' = "idle"
    /\ ret' = r
    /\ mem' = NoMem

\* Entry of every call but Create: readRepository, then the first step.
Begin(o, name, first) ==
    /\ pc = "idle"
    /\ op' = o
    /\ arg' = name
    /\ pre' = readRepository(lnk, dirs)
    /\ preLnk' = lnk
    /\ srcPresent' = TRUE
    /\ swept' = NoSweep
    /\ IF readFailed(readRepository(lnk, dirs))
       THEN Return(ErrCorrupt)
       ELSE /\ pc' = first
            /\ ret' = Running
            /\ mem' = readRepository(lnk, dirs)
    /\ UNCHANGED <<rootExists, dirs, lnk, hooked, hookErr, pc2, mem2, inflight, orphan>>

Create(name) ==
    /\ pc = "idle"
    /\ op' = "Create"
    /\ arg' = name
    /\ pre' = readRepository(lnk, dirs)
    /\ preLnk' = lnk
    /\ srcPresent' = TRUE
    /\ swept' = NoSweep
    /\ \E mkdirOk \in (IF rootExists THEN {TRUE} ELSE BOOLEAN) :
          IF ~mkdirOk
          THEN Return(ErrIO) /\ UNCHANGED rootExists
          ELSE /\ rootExists' = TRUE
               /\ IF readFailed(readRepository(lnk, dirs))
                  THEN Return(ErrCorrupt)
                  ELSE /\ pc' = "delExp"
                       /\ ret' = Running
                       /\ mem' = readRepository(lnk, dirs)
    /\ UNCHANGED <<dirs, lnk, hooked, hookErr, pc2, mem2, inflight, orphan>>

Delete == Begin("Delete", "", "delExp")

SetExperiment(name) == Begin("SetExperiment", name, "cleanup")

PromoteExperiment == Begin("PromoteExperiment", "", "cleanup")

DeleteExperiment == Begin("DeleteExperiment", "", "cleanup")

Cleanup == Begin("Cleanup", "", "cleanup")

\* A call of GetState: it reads the repository and returns; its State is
\* GetState, and the error of readRepository is its only error.
GetStateCall ==
    /\ pc = "idle"
    /\ op' = "GetState"
    /\ arg' = ""
    /\ pre' = readRepository(lnk, dirs)
    /\ preLnk' = lnk
    /\ srcPresent' = TRUE
    /\ swept' = NoSweep
    /\ Return(IF GetState.err THEN ErrCorrupt ELSE Ok)
    /\ UNCHANGED <<rootExists, dirs, lnk, hooked, hookErr, pc2, mem2, inflight, orphan>>

----------------------------------------------------------------------------
(* Steps of the calls.                                                     *)

\* Create and Delete: remove the experiment link, then the stable link,
\* each only when the snapshot holds it.  Delete then calls r.Cleanup, which
\* reads the repository again.
linkDeleteStep ==
    /\ pc \in {"delExp", "delStable"}
    /\ LET l == IF pc = "delExp" THEN experimentVersionLink ELSE stableVersionLink
           next == IF pc = "delExp" THEN "delStable" ELSE "cleanup"
       IN \E deleteOk \in (IF Exists(mem, l) THEN BOOLEAN ELSE {TRUE}) :
             IF ~deleteOk
             THEN Return(ErrIO) /\ UNCHANGED lnk
             ELSE LET links == IF Exists(mem, l) THEN linkDelete(lnk, l) ELSE lnk
                      snapshot == IF op = "Delete" /\ next = "cleanup"
                                  THEN readRepository(links, dirs)
                                  ELSE Deleted(mem, l)
                  IN /\ lnk' = links
                     /\ IF readFailed(snapshot)
                        THEN Return(ErrCorrupt)
                        ELSE /\ pc' = next
                             /\ mem' = snapshot
                             /\ UNCHANGED ret
    /\ UNCHANGED <<rootExists, dirs, hooked, hookErr, pc2, mem2, op, arg, pre, preLnk, srcPresent, swept, inflight, orphan>>

\* Variant: the experiment link is pointed at its own path.
experimentToStableTarget_own == experimentVersionLink

\* The base name the experiment link is given by setExperimentToStable:
\* r.experiment.Set(r.stable.linkPath).
experimentToStableTarget == stableVersionLink

\* Variant: the migration of old repositories is left out.
needsMigration_never == FALSE

\* Variant: an experiment link that refers to a version is reset as well.
needsMigration_resets ==
    /\ Exists(mem, stableVersionLink)
    /\ (~Exists(mem, experimentVersionLink) \/ mem[experimentVersionLink] \in Versions)

\* Variant: the experiment link is created whenever it is missing, with or
\* without stable link.
needsMigration_withoutStable == ~Exists(mem, experimentVersionLink)

\* cleanup, first part: an old repository without experiment link.
needsMigration == Exists(mem, stableVersionLink) /\ ~Exists(mem, experimentVersionLink)

cleanupMigrate ==
    /\ pc \in {"cleanup", "cleanup2"}
    /\ needsMigration
    /\ \E setOk \in BOOLEAN :
          IF setOk
          THEN /\ lnk' = linkSet(lnk, experimentVersionLink, experimentToStableTarget)
               /\ mem' = Set(mem, experimentVersionLink, experimentToStableTarget)
               /\ UNCHANGED <<pc, ret>>
          ELSE Return(ErrIO) /\ UNCHANGED lnk
    /\ UNCHANGED <<rootExists, dirs, hooked, hookErr, pc2, mem2, op, arg, pre, preLnk, srcPresent, swept, inflight, orphan>>

\* cleanup, the entries of the root that the loop does not skip.
isLink(file) == file = stableVersionLink \/ file = experimentVersionLink

isStable(snapshot, file) ==
    Exists(snapshot, stableVersionLink) /\ Target(snapshot, stableVersionLink) = file

isExperiment(snapshot, file) ==
    Exists(snapshot, experimentVersionLink) /\ Target(snapshot, experimentVersionLink) = file

\* Variant: the directory the experiment link references is not skipped.
candidates_noExperiment(snapshot, files) ==
    { file \in files : ~(isLink(file) \/ isStable(snapshot, file)) }

\* Variant: the loop skips every entry.
candidates_none(snapshot, files) == {}

candidates(snapshot, files) ==
    { file \in files : ~(isLink(file) \/ isStable(snapshot, file) \/ isExperiment(snapshot, file)) }

\* Variant: a hook is asked whether or not one is registered.
hookDenials_unregistered(cands) == SUBSET cands

\* The sets of candidates the hook may answer canDelete = false for.
hookDenials(cands) == IF hooked THEN SUBSET cands ELSE {{}}

\* Variant: the answer of the hook is ignored.
removed_ignoringHook(cands, denied, failed) == cands \ failed

\* Variant: a directory the hook returned an error for is kept.
removed_unlessHookError(cands, denied, failed) == ((cands \ denied) \ hookErr) \ failed

\* Variant: os.RemoveAll is never called.
removed_nothing(cands, denied, failed) == {}

\* The candidates os.RemoveAll is called on and removes: those the hook
\* answered canDelete = true for, whatever error it returned with it.
removed(cands, denied, failed) == (cands \ denied) \ failed

\* Where a call goes after a cleanup pass.
afterCleanup ==
    IF pc = "cleanup2" THEN "return"
    ELSE CASE op = "Create" -> "move"
           [] op = "Delete" -> "rmRoot"
           [] op = "SetExperiment" -> "move"
           [] op = "PromoteExperiment" -> "setStable"
           [] op = "DeleteExperiment" -> "expToStable"
           [] OTHER -> "return"

\* Variant: the listing of the root never fails.
readDirFails_never == FALSE

\* os.ReadDir(rootPath) of cleanup fails: the root does not exist.
readDirFails == ~rootExists

\* cleanup, second part: the sweep of the left-over packages.
cleanupSweep ==
    /\ pc \in {"cleanup", "cleanup2"}
    /\ ~needsMigration
    /\ IF readDirFails
       THEN Return(ErrNoRoot) /\ UNCHANGED <<dirs, swept, inflight, orphan>>
       ELSE LET cands == candidates(mem, ReadDir)
            IN \E denied \in hookDenials(cands) :
               \E failed \in SUBSET (cands \ denied) :
                  /\ dirs' = dirs \ removed(cands, denied, failed)
                  /\ inflight' = NoPath
                  /\ orphan' = NoPath
                  /\ swept' = [pass |-> swept.pass + 1, cands |-> cands,
                              denied |-> denied, failed |-> failed]
                  /\ IF afterCleanup = "return"
                     THEN Return(Ok)
                     ELSE pc' = afterCleanup /\ UNCHANGED <<mem, ret>>
    /\ UNCHANGED <<rootExists, lnk, hooked, hookErr, pc2, mem2, op, arg, pre, preLnk, srcPresent>>

\* Variant: the links are not checked after the cleanup.
linksMissing_never == FALSE

\* The checks SetExperiment, PromoteExperiment and DeleteExperiment make
\* on the snapshot after their first cleanup.
linksMissing ==
    /\ op \in {"SetExperiment", "PromoteExperiment", "DeleteExperiment"}
    /\ (~Exists(mem, stableVersionLink) \/ ~Exists(mem, experimentVersionLink))

\* Variant: every name is accepted.
invalidName_none(packageName) == FALSE

invalidName(packageName) ==
    packageName = "" \/ packageName = stableVersionLink \/ packageName = experimentVersionLink

\* Variant: the target path is not looked up before the rename.
targetExists_never(packageName) == FALSE

\* movePackageFromSource: os.Stat(targetPath) succeeds.
targetExists(packageName) == packageName \in ReadDir

\* setStable / setExperiment, first half: movePackageFromSource.
movePackageFromSource ==
    /\ pc = "move"
    /\ IF linksMissing THEN Return(ErrInvalidState) /\ UNCHANGED <<dirs, srcPresent, inflight>>
       ELSE IF invalidName(arg) THEN Return(ErrInvalidName) /\ UNCHANGED <<dirs, srcPresent, inflight>>
       ELSE IF targetExists(arg) THEN Return(ErrExists) /\ UNCHANGED <<dirs, srcPresent, inflight>>
       ELSE \E renameOk \in BOOLEAN :
               IF renameOk
               THEN /\ dirs' = dirs \cup {arg}
                    /\ srcPresent' = FALSE
                    /\ inflight' = arg
                    /\ pc' = "setLink"
                    /\ UNCHANGED <<mem, ret>>
               ELSE Return(ErrIO) /\ UNCHANGED <<dirs, srcPresent, inflight>>
    /\ UNCHANGED <<rootExists, lnk, hooked, hookErr, pc2, mem2, op, arg, pre, preLnk, swept, orphan>>

\* Variant: setExperiment sets the stable link, as setStable does.
movedLink_stable == stableVersionLink

\* The link setStable (Create) and setExperiment (SetExperiment) point at
\* the directory they moved in.
movedLink == IF op = "Create" THEN stableVersionLink ELSE experimentVersionLink

\* setStable / setExperiment, second half: point the link at the new directory.
linkSetStep ==
    /\ pc = "setLink"
    /\ LET l == movedLink
       IN \E setOk \in BOOLEAN :
             IF setOk
             THEN /\ lnk' = linkSet(lnk, l, arg)
                  /\ inflight' = NoPath
                  /\ orphan' = IF /\ op = "SetExperiment"
                                  /\ pre[experimentVersionLink] \in Versions \ {pre[stableVersionLink]}
                               THEN pre[experimentVersionLink]
                               ELSE orphan
                  /\ IF op = "Create"
                     THEN /\ pc' = "expToStable"
                          /\ mem' = Set(mem, l, arg)
                          /\ UNCHANGED ret
                     ELSE Return(Ok)
             ELSE Return(ErrIO) /\ UNCHANGED <<lnk, inflight, orphan>>
    /\ UNCHANGED <<rootExists, dirs, hooked, hookErr, pc2, mem2, op, arg, pre, preLnk, srcPresent, swept>>

\* Create and DeleteExperiment: setExperimentToStable.
setExperimentToStable ==
    /\ pc = "expToStable"
    /\ IF linksMissing THEN Return(ErrInvalidState) /\ UNCHANGED lnk
       ELSE \E setOk \in BOOLEAN :
               IF setOk
               THEN /\ lnk' = linkSet(lnk, experimentVersionLink, experimentToStableTarget)
                    /\ IF op = "Create"
                       THEN Return(Ok)
                       ELSE /\ pc' = "cleanup2"
                            /\ mem' = Set(mem, experimentVersionLink, experimentToStableTarget)
                            /\ UNCHANGED ret
               ELSE Return(ErrIO) /\ UNCHANGED lnk
    /\ UNCHANGED <<rootExists, dirs, hooked, hookErr, pc2, mem2, op, arg, pre, preLnk, srcPresent, swept, inflight, orphan>>

\* Variant: the link paths are compared instead of the targets.
nothingToPromote_paths == stableVersionLink = experimentVersionLink

\* PromoteExperiment: the target comparison of the snapshot.
nothingToPromote == Target(mem, stableVersionLink) = Target(mem, experimentVersionLink)

\* PromoteExperiment: stable.Set(*experiment.packagePath).
promoteSetStable ==
    /\ pc = "setStable"
    /\ IF linksMissing THEN Return(ErrInvalidState) /\ UNCHANGED lnk
       ELSE IF nothingToPromote THEN Return(ErrNoExperiment) /\ UNCHANGED lnk
       ELSE \E setOk \in BOOLEAN :
               IF setOk
               THEN /\ lnk' = linkSet(lnk, stableVersionLink, mem[experimentVersionLink])
                    /\ mem' = Set(mem, stableVersionLink, mem[experimentVersionLink])
                    /\ pc' = "cleanup2"
                    /\ UNCHANGED ret
               ELSE Return(ErrIO) /\ UNCHANGED lnk
    /\ UNCHANGED <<rootExists, dirs, hooked, hookErr, pc2, mem2, op, arg, pre, preLnk, srcPresent, swept, inflight, orphan>>

\* Variant: the root is removed without looking at what is left in it.
rootNotEmpty_unchecked == FALSE

\* Delete: len(files) > 0 after the cleanup.
rootNotEmpty == ReadDir # {}

\* Delete: the root must be empty after the cleanup, then it is removed;
\* os.RemoveAll finds nothing below the root at that point.
deleteRoot ==
    /\ pc = "rmRoot"
    /\ IF ~rootExists THEN Return(ErrNoRoot) /\ UNCHANGED rootExists
       ELSE IF rootNotEmpty THEN Return(ErrNotEmpty) /\ UNCHANGED rootExists
       ELSE \E removeOk \in BOOLEAN :
               IF removeOk
               THEN Return(Ok) /\ rootExists' = FALSE
               ELSE Return(ErrIO) /\ UNCHANGED rootExists
    /\ UNCHANGED <<dirs, lnk, hooked, hookErr, pc2, mem2, op, arg, pre, preLnk, srcPresent, swept, inflight, orphan>>

\* The process running a call stops between two filesystem primitives.
Interrupt ==
    /\ pc # "idle"
    /\ Return(Interrupted)
    /\ UNCHANGED <<rootExists, dirs, lnk, hooked, hookErr, pc2, mem2, op, arg, pre, preLnk, srcPresent, swept, inflight, orphan>>

----------------------------------------------------------------------------
(* Specification.                                                          *)

\* No repository on disk yet; the Repository value is built with or without
\* a pre-remove hook for the package.
Init ==
    /\ hooked \in BOOLEAN
    /\ rootExists = FALSE
    /\ dirs = {}
    /\ lnk = [l \in LinkNames |-> NoPath]
    /\ pc = "idle"
    /\ op = "none"
    /\ arg = ""
    /\ mem = NoMem
    /\ pre = NoMem
    /\ preLnk = NoMem
    /\ ret = Ok
    /\ srcPresent = TRUE
    /\ swept = NoSweep
    /\ inflight = NoPath
    /\ orphan = NoPath
    /\ hookErr = {}
    /\ pc2 = "idle"
    /\ mem2 = NoMem

Next ==
    \/ \E name \in ArgNames : Create(name)
    \/ Delete
    \/ \E name \in ArgNames : SetExperiment(name)
    \/ PromoteExperiment
    \/ DeleteExperiment
    \/ Cleanup
    \/ GetStateCall
    \/ linkDeleteStep
    \/ cleanupMigrate
    \/ cleanupSweep
    \/ movePackageFromSource
    \/ linkSetStep
    \/ setExperimentToStable
    \/ promoteSetStable
    \/ deleteRoot
    \/ Interrupt

Spec == Init /\ [][Next]_vars

\* Interference from outside the program: between two calls something
\* else removes a version directory that a link refers to.
ExternalRemove ==
    /\ pc = "idle"
    /\ \E l \in LinkNames :
          /\ linkRead(lnk, l) \in dirs
          /\ dirs' = dirs \ {linkRead(lnk, l)}
    /\ UNCHANGED <<rootExists, lnk, hooked, hookErr, pc2, mem2, pc, op, arg, mem, pre, preLnk, ret,
                   srcPresent, swept, inflight, orphan>>

NextInterference == Next \/ ExternalRemove

\* The program run on a root that is also changed from outside.
SpecInterference == Init /\ [][NextInterference]_vars

TypeOK ==
    /\ rootExists \in BOOLEAN
    /\ dirs \subseteq ArgNames
    /\ lnk \in [LinkNames -> Versions \cup LinkNames \cup {NoPath}]
    /\ hooked \in BOOLEAN
    /\ pc \in {"idle", "delExp", "delStable", "cleanup", "cleanup2", "move",
               "setLink", "expToStable", "setStable", "rmRoot"}
    /\ op \in {"none", "Create", "Delete", "SetExperiment", "PromoteExperiment",
               "DeleteExperiment", "Cleanup", "GetState", "link.Set", "link.Delete"}
    /\ arg \in ArgNames
    /\ mem \in [LinkNames -> Versions \cup LinkNames \cup {NoPath}]
    /\ pre \in [LinkNames -> Versions \cup LinkNames \cup {NoPath, ErrPath}]
    /\ preLnk \in [LinkNames -> Versions \cup LinkNames \cup {NoPath}]
    /\ srcPresent \in BOOLEAN
    /\ inflight \in Versions \cup {NoPath}
    /\ orphan \in Versions \cup {NoPath}
    /\ hookErr \subseteq Versions
    /\ pc2 \in {"idle", "cleanup"}
    /\ mem2 \in [LinkNames -> Versions \cup LinkNames \cup {NoPath}]

\* A repository as calls leave it, read by a Repository value whose hook
\* returns errors for some directories: the links resolve, and any number
\* of directories no link refers to is left over.
InitHook ==
    /\ hooked = TRUE
    /\ hookErr \in SUBSET Versions
    /\ rootExists = TRUE
    /\ dirs \in SUBSET Versions
    /\ lnk \in [LinkNames -> Versions \cup LinkNames \cup {NoPath}]
    /\ lnk[stableVersionLink] \in dirs \cup {NoPath}
    /\ lnk[experimentVersionLink] \in dirs \cup {stableVersionLink, NoPath}
    /\ lnk[stableVersionLink] = NoPath => lnk[experimentVersionLink] = NoPath
    /\ pc = "idle"
    /\ op = "none"
    /\ arg = ""
    /\ mem = NoMem
    /\ pre = NoMem
    /\ preLnk = NoMem
    /\ ret = Ok
    /\ srcPresent = TRUE
    /\ swept = NoSweep
    /\ inflight = NoPath
    /\ orphan = NoPath
    /\ pc2 = "idle"
    /\ mem2 = NoMem

NextHook ==
    \/ Cleanup
    \/ cleanupMigrate
    \/ cleanupSweep

\* Cleanup calls on such a repository.
SpecHook == InitHook /\ [][NextHook]_vars

----------------------------------------------------------------------------
(* Properties.                                                             *)

\* A call has returned (it was not interrupted) and no other has started.
Returned(o) == pc = "idle" /\ op = o /\ ret # Interrupted

\* The version directory the link l resolves to on disk, NoPath or ErrPath.
Resolved(l) == newLink(lnk, dirs, l)

\* C1: in every reachable state, each of the links stable and experiment
\* that exists on disk resolves to a version directory that exists under
\* the root (never to a missing directory or to itself).
C1_LinksResolve ==
    \A l \in LinkNames : lnk[l] # NoPath => Resolved(l) \in dirs

\* C2: after Create(name, source) returns success, GetState is
\* {Stable: name, Experiment: ""}; the stable link references the new
\* directory and the experiment link exists and resolves to the same one.
C2_CreateSuccess ==
    (Returned("Create") /\ ret = Ok) =>
        /\ GetState = [err |-> FALSE, Stable |-> arg, Experiment |-> ""]
        /\ lnk[stableVersionLink] = arg
        /\ arg \in dirs
        /\ lnk[experimentVersionLink] # NoPath
        /\ Resolved(experimentVersionLink) = arg

C2_Witness ==
    /\ Returned("Create") /\ ret = Ok
    /\ pre[stableVersionLink] \in Versions
    /\ pre[experimentVersionLink] \in Versions \ {pre[stableVersionLink]}

\* C3: after SetExperiment(name, source) returns success on a repository
\* whose stable link references S, GetState is {Stable: S, Experiment: name};
\* the stable link is unchanged and the experiment link references the
\* directory that was moved in.
C3_SetExperimentSuccess ==
    (Returned("SetExperiment") /\ ret = Ok) =>
        /\ pre[stableVersionLink] \in Versions
        /\ GetState = [err |-> FALSE, Stable |-> pre[stableVersionLink], Experiment |-> arg]
        /\ lnk[stableVersionLink] = preLnk[stableVersionLink]
        /\ lnk[experimentVersionLink] = arg
        /\ arg \in dirs
        /\ ~srcPresent

C3_Witness ==
    /\ Returned("SetExperiment") /\ ret = Ok
    /\ pre[experimentVersionLink] = pre[stableVersionLink]
    /\ arg \in Versions

\* C4 as stated: after PromoteExperiment returns success on stable = S and
\* a distinct experiment = E, the hook not vetoing S, GetState is
\* {Stable: E, Experiment: ""}, directory S is gone and directory E exists.
C4_PromoteRemovesOldStable ==
    (/\ Returned("PromoteExperiment") /\ ret = Ok
     /\ pre[stableVersionLink] \in Versions
     /\ pre[experimentVersionLink] \in Versions \ {pre[stableVersionLink]}
     /\ pre[stableVersionLink] \notin swept.denied) =>
        /\ GetState = [err |-> FALSE, Stable |-> pre[experimentVersionLink], Experiment |-> ""]
        /\ pre[stableVersionLink] \notin dirs
        /\ pre[experimentVersionLink] \in dirs

\* C4 amended: the same, when in addition the removal of directory S did
\* not fail; the experiment link is left as it was.
C4_PromoteSuccess ==
    (/\ Returned("PromoteExperiment") /\ ret = Ok
     /\ pre[stableVersionLink] \in Versions
     /\ pre[experimentVersionLink] \in Versions \ {pre[stableVersionLink]}
     /\ pre[stableVersionLink] \notin swept.denied
     /\ pre[stableVersionLink] \notin swept.failed) =>
        /\ GetState = [err |-> FALSE, Stable |-> pre[experimentVersionLink], Experiment |-> ""]
        /\ lnk[stableVersionLink] = pre[experimentVersionLink]
        /\ lnk[experimentVersionLink] = preLnk[experimentVersionLink]
        /\ pre[stableVersionLink] \notin dirs
        /\ pre[experimentVersionLink] \in dirs

C4_Witness ==
    /\ Returned("PromoteExperiment") /\ ret = Ok
    /\ pre[stableVersionLink] \in Versions
    /\ pre[experimentVersionLink] \in Versions \ {pre[stableVersionLink]}
    /\ hooked
    /\ swept.pass > 1
    /\ swept.cands = {pre[stableVersionLink]}
    /\ swept.denied = {} /\ swept.failed = {}

\* The call in progress is a PromoteExperiment that started with both links
\* resolving to the same version.
PromotingNoExperiment ==
    /\ pc # "idle"
    /\ op = "PromoteExperiment"
    /\ pre[stableVersionLink] \in Versions
    /\ pre[experimentVersionLink] = pre[stableVersionLink]

\* C5: PromoteExperiment called when the stable and the experiment link
\* resolve to the same version fails with "no experiment to promote" and
\* leaves both links and the referenced directory unchanged.
C5_PromoteWithoutExperiment ==
    [][PromotingNoExperiment =>
          /\ lnk' = lnk
          /\ pre[stableVersionLink] \in dirs'
          /\ (pc' = "idle" => ret' \in {ErrNoExperiment, Interrupted})]_vars

C5_Witness ==
    /\ Returned("PromoteExperiment") /\ ret = ErrNoExperiment
    /\ pre[stableVersionLink] \in Versions
    /\ pre[experimentVersionLink] = pre[stableVersionLink]
    /\ swept.cands # {}

\* The call started on a repository that has the stable link and no
\* experiment link.
StartedLegacy ==
    pre[stableVersionLink] \in Versions /\ pre[experimentVersionLink] = NoPath

\* C6: PromoteExperiment on a repository that has only the stable link
\* self-heals the experiment link and then fails with "no experiment to
\* promote"; afterwards the stable link still references its original
\* version directory and that directory still exists.
C6_PromoteLegacy ==
    (/\ Returned("PromoteExperiment") /\ ret # ErrIO
     /\ StartedLegacy) =>
        /\ ret = ErrNoExperiment
        /\ lnk[stableVersionLink] = preLnk[stableVersionLink]
        /\ Resolved(stableVersionLink) = pre[stableVersionLink]
        /\ Resolved(experimentVersionLink) = pre[stableVersionLink]
        /\ pre[stableVersionLink] \in dirs

\* The step is the first filesystem mutation of a call that started on a
\* repository with the stable link and no experiment link.
FirstMutationOfLegacyCall ==
    /\ pc # "idle"
    /\ StartedLegacy
    /\ lnk[experimentVersionLink] = NoPath
    /\ disk' # disk

\* The step creates the experiment link, resolving to the version the stable
\* link references, and changes nothing else on disk.
HealsExperimentLink ==
    /\ lnk'[experimentVersionLink] # NoPath
    /\ newLink(lnk', dirs', experimentVersionLink) = pre[stableVersionLink]
    /\ lnk'[stableVersionLink] = lnk[stableVersionLink]
    /\ dirs' = dirs
    /\ rootExists' = rootExists

\* C7 as stated: on a root with the stable link and no experiment link,
\* every mutating call (Create, SetExperiment, PromoteExperiment,
\* DeleteExperiment, Delete, Cleanup) creates the experiment link, resolving
\* to the stable version, before any other mutation.
C7_EveryCallHealsFirst ==
    [][FirstMutationOfLegacyCall => HealsExperimentLink]_vars

\* C7 amended: SetExperiment, PromoteExperiment, DeleteExperiment and
\* Cleanup do so; Create and Delete remove the stable link instead.
C7_CleanupCallsHealFirst ==
    [][(FirstMutationOfLegacyCall /\ op \notin {"Create", "Delete"})
          => HealsExperimentLink]_vars

C7_Witness ==
    /\ pc = "expToStable"
    /\ op = "DeleteExperiment"
    /\ StartedLegacy
    /\ lnk[experimentVersionLink] # NoPath
    /\ Resolved(experimentVersionLink) = pre[stableVersionLink]
    /\ swept.cands # {}

\* The step is a cleanup pass (the sweep of cleanup).
Pass == swept'.pass = swept.pass + 1

\* A pass never removes a directory a link references on disk.
PassKeepsReferenced ==
    \A l \in LinkNames : Resolved(l) \in dirs => Resolved(l) \in dirs'

\* C8 as stated: a cleanup pass removes every entry of the root that is not
\* named stable or experiment, is not the target of either link and is not
\* vetoed by the hook; it never removes a directory a link references.
C8_PassRemovesAllGarbage ==
    [][Pass =>
          /\ \A e \in ReadDir :
                (/\ ~isLink(e)
                 /\ e # Resolved(stableVersionLink)
                 /\ e # Resolved(experimentVersionLink)
                 /\ e \notin swept'.denied) => e \notin dirs'
          /\ PassKeepsReferenced]_vars

\* C8 amended: the same for the entries whose removal does not fail; an
\* entry os.RemoveAll fails on is left for a later pass.
C8_PassRemovesGarbage ==
    [][Pass =>
          /\ \A e \in ReadDir :
                (/\ ~isLink(e)
                 /\ e # Resolved(stableVersionLink)
                 /\ e # Resolved(experimentVersionLink)
                 /\ e \notin swept'.denied
                 /\ e \notin swept'.failed) => e \notin dirs'
          /\ PassKeepsReferenced]_vars

C8_Witness ==
    /\ swept.pass > 0
    /\ Resolved(stableVersionLink) \in dirs
    /\ Resolved(experimentVersionLink) \in dirs \ {Resolved(stableVersionLink)}
    /\ swept.cands # {}
    /\ swept.cands \cap dirs = {}

\* C9: Create and SetExperiment called with the name "stable", "experiment"
\* or "" fail and perform no filesystem mutation: no step of such a call
\* changes a link, removes a version directory a link references or the
\* root, or moves the source directory.  (The root a failed Create leaves
\* created and the sweep of unreferenced directories are not counted as
\* mutations here, so that a violation is a loss of the installed state.)
C9_InvalidNameNoMutation ==
    [][(op' \in {"Create", "SetExperiment"} /\ invalidName(arg')) =>
          /\ lnk' = lnk
          /\ PassKeepsReferenced
          /\ dirs' \subseteq dirs
          /\ (rootExists => rootExists')
          /\ srcPresent'
          /\ (pc' = "idle" => ret' # Ok)]_vars

\* A directory leaves the root only in a pass in which the hook was asked
\* about it and did not deny its removal.
OnlyAllowedRemovals ==
    \A d \in dirs :
        d \notin dirs' => (Pass /\ d \in swept'.cands /\ d \notin swept'.denied)

\* C10 as stated: with a hook, a directory the hook answers canDelete=false
\* for stays through any number of passes, and the first pass in which the
\* hook answers canDelete=true removes it.
C10_VetoUntilAllowed ==
    [][hooked =>
          /\ OnlyAllowedRemovals
          /\ \A d \in dirs :
                (Pass /\ d \in swept'.cands /\ d \notin swept'.denied) => d \notin dirs']_vars

\* C10 amended: the first pass in which the hook answers canDelete=true
\* removes it unless os.RemoveAll fails on it.
C10_VetoPersists ==
    [][hooked =>
          /\ OnlyAllowedRemovals
          /\ \A d \in dirs :
                (/\ Pass /\ d \in swept'.cands
                 /\ d \notin swept'.denied /\ d \notin swept'.failed) => d \notin dirs']_vars

C10_Witness ==
    /\ hooked
    /\ pc = "idle"
    /\ swept.denied # {}
    /\ swept.denied \subseteq dirs
    /\ swept.cands \ (swept.denied \cup swept.failed) # {}
    /\ (swept.cands \ swept.denied) \cap dirs = {}

\* The State GetState returns on a repository that was not created.
EmptyState == [err |-> FALSE, Stable |-> "", Experiment |-> ""]

\* C11: Delete on a repository whose hook vetoes the removal of at least
\* one version directory returns the "not empty after cleanup" error and
\* removes neither the root nor the vetoed directories.
C11_DeleteVetoed ==
    (Returned("Delete") /\ swept.pass > 0 /\ swept.denied # {}) =>
        /\ ret = ErrNotEmpty
        /\ rootExists
        /\ swept.denied \subseteq dirs

C11_Witness ==
    /\ Returned("Delete") /\ ret = ErrNotEmpty
    /\ hooked
    /\ pre[stableVersionLink] \in Versions
    /\ swept.denied = {pre[stableVersionLink]}
    /\ lnk = NoMem

\* C12: after Delete returns success the repository is absent: neither
\* link exists, no version directory exists, the root is removed and
\* GetState returns the empty state.
C12_DeleteSuccess ==
    (Returned("Delete") /\ ret = Ok) =>
        /\ lnk = NoMem
        /\ dirs = {}
        /\ ~rootExists
        /\ GetState = EmptyState

C12_Witness ==
    /\ Returned("Delete") /\ ret = Ok
    /\ pre[stableVersionLink] \in Versions
    /\ pre[experimentVersionLink] \in Versions \ {pre[stableVersionLink]}
    /\ hooked

\* C13: a Delete that failed on a veto can be retried.  A Delete called
\* when both links are already gone and whose hook allows every remaining
\* directory succeeds and removes the remaining directories and the root.
C13_DeleteRetryAllowed ==
    (/\ Returned("Delete") /\ preLnk = NoMem
     /\ swept.pass > 0 /\ swept.denied = {}
     /\ ret # ErrIO) =>
        /\ ret = Ok
        /\ dirs = {}
        /\ ~rootExists

\* C13 (amended): the retried Delete succeeds when, besides the hook
\* allowing every remaining directory, no os.RemoveAll of the cleanup fails;
\* a failed removal is only logged and the call ends "not empty".
C13_DeleteRetry ==
    (/\ Returned("Delete") /\ preLnk = NoMem
     /\ swept.pass > 0 /\ swept.denied = {} /\ swept.failed = {}
     /\ ret # ErrIO) =>
        /\ ret = Ok
        /\ dirs = {}
        /\ ~rootExists

C13_Witness ==
    /\ Returned("Delete") /\ ret = Ok
    /\ preLnk = NoMem
    /\ hooked
    /\ swept.cands # {}

\* C14: in every reachable state GetState reports Experiment empty when the
\* experiment link resolves to the directory the stable link resolves to,
\* and the experiment link's target otherwise; it never reports a non-empty
\* Experiment equal to Stable.
C14_ExperimentCollapsed ==
    LET state == GetState
        stable == linkRead(lnk, stableVersionLink)
        experiment == linkRead(lnk, experimentVersionLink)
    IN /\ state.Experiment # "" => state.Experiment # state.Stable
       /\ ~state.err =>
             /\ state.Stable = (IF lnk[stableVersionLink] = NoPath THEN "" ELSE stable)
             /\ state.Experiment =
                   (IF lnk[experimentVersionLink] = NoPath THEN ""
                    ELSE IF lnk[stableVersionLink] # NoPath /\ experiment = stable THEN ""
                    ELSE experiment)

C14_Witness ==
    /\ pc = "idle"
    /\ lnk[stableVersionLink] \in dirs
    /\ lnk[experimentVersionLink] = stableVersionLink
    /\ GetState = [err |-> FALSE, Stable |-> lnk[stableVersionLink], Experiment |-> ""]

\* C15: GetState on a repository that was never created (no root, or no
\* link) returns the empty state and no error, and a call of GetState
\* changes nothing on disk in any state.
C15_GetStateReadOnly ==
    [][op' = "GetState" =>
          /\ disk' = disk
          /\ (~rootExists \/ lnk = NoMem) => (ret' = Ok /\ GetState' = EmptyState)]_vars

C15_Witness ==
    /\ Returned("GetState") /\ ret = Ok
    /\ rootExists
    /\ lnk = NoMem
    /\ dirs # {}

\* The call in progress started on an existing root without stable link.
RunningWithoutStable ==
    /\ pc # "idle"
    /\ op \in {"SetExperiment", "PromoteExperiment", "DeleteExperiment"}
    /\ rootExists
    /\ preLnk[stableVersionLink] = NoPath

\* C16: SetExperiment, PromoteExperiment and DeleteExperiment called on an
\* existing root without stable link fail with "invalid state"; no source
\* directory is moved into the root and no link is created or changed.
C16_NoStableInvalidState ==
    [][RunningWithoutStable =>
          /\ lnk' = lnk
          /\ srcPresent'
          /\ dirs' \subseteq dirs
          /\ (pc' = "idle" => ret' \in {ErrInvalidState, Interrupted})]_vars

C16_Witness ==
    /\ Returned("SetExperiment") /\ ret = ErrInvalidState
    /\ preLnk[stableVersionLink] = NoPath
    /\ arg \in Versions
    /\ swept.cands # {}

\* A link on disk does not resolve to an existing version directory.
Corrupted ==
    \E l \in LinkNames : lnk[l] # NoPath /\ linkRead(lnk, l) \notin dirs

\* C17: when a link exists on disk but does not resolve to an existing
\* directory, every public call (GetState, Create, SetExperiment,
\* PromoteExperiment, DeleteExperiment, Delete, Cleanup) returns an error
\* and changes no link and no directory.  Checked under SpecInterference,
\* where a directory a link refers to can be removed from outside.
C17_CorruptionIsAnError ==
    [][(pc = "idle" /\ Corrupted /\ ~ExternalRemove) =>
          /\ disk' = disk
          /\ pc' = "idle"
          /\ ret' = ErrCorrupt]_vars

C17_Witness ==
    /\ Returned("Create") /\ ret = ErrCorrupt
    /\ arg \in Versions
    /\ lnk[stableVersionLink] \in dirs
    /\ lnk[experimentVersionLink] \in Versions \ dirs

\* The call is at its move step and a directory named as its argument exists.
MovingOntoExisting ==
    /\ pc = "move"
    /\ ~linksMissing
    /\ arg \in dirs

\* C18: SetExperiment, and the move step of Create, with a name for which a
\* directory exists under the root at move time (also the name of the
\* current stable or experiment version) fail with "target package already
\* exists"; the source directory is not moved and neither link changes.
C18_DuplicateVersion ==
    [][MovingOntoExisting =>
          /\ pc' = "idle"
          /\ ret' \in {ErrExists, Interrupted}
          /\ srcPresent'
          /\ disk' = disk]_vars

C18_Witness ==
    /\ Returned("SetExperiment") /\ ret = ErrExists
    /\ arg = pre[experimentVersionLink]
    /\ arg # pre[stableVersionLink]
    /\ srcPresent

\* A cleanup pass runs while the directory a call moved in, without
\* pointing its link at it, is on disk.
PassOverInflight == Pass /\ inflight # NoPath

\* C19: if a transition is interrupted after its source directory was moved
\* into the root and before the link was pointed at it, a subsequent cleanup
\* does not delete that directory.
C19_InflightKept ==
    [][PassOverInflight => inflight \in dirs']_vars

\* C19 (amended): the next cleanup pass treats that directory as any other
\* directory no link refers to: it is removed, unless the pre-remove hook
\* denies it or os.RemoveAll fails on it.
C19_InflightIsGarbage ==
    [][PassOverInflight =>
          /\ inflight \in dirs
          /\ inflight \in swept'.cands
          /\ inflight \in dirs' <=> inflight \in swept'.denied \cup swept'.failed]_vars

\* An interrupted SetExperiment left its directory behind and a Cleanup
\* call without hook is at its pass.
C19_Witness ==
    /\ op = "Cleanup" /\ pc = "cleanup" /\ ~needsMigration
    /\ ~hooked
    /\ inflight \in dirs
    /\ mem[stableVersionLink] \in dirs \ {inflight}
    /\ mem[experimentVersionLink] = stableVersionLink

\* repositoryFiles.cleanup run to its end on the links and directories
\* given, the hook allowing every removal and no primitive failing: the
\* links, the directories and the snapshot it leaves.
cleanupDone(links, ds, snapshot) ==
    LET migrate == Exists(snapshot, stableVersionLink) /\ ~Exists(snapshot, experimentVersionLink)
        healed == IF migrate
                  THEN linkSet(links, experimentVersionLink, experimentToStableTarget)
                  ELSE links
        after == IF migrate
                 THEN Set(snapshot, experimentVersionLink, experimentToStableTarget)
                 ELSE snapshot
        files == ds \cup {l \in LinkNames : healed[l] # NoPath}
    IN [lnk |-> healed,
        dirs |-> ds \ removed(candidates(after, files), {}, {}),
        mem |-> after]

\* The links and directories an uninterrupted PromoteExperiment ends with.
PromoteExperimentDone(links, ds) ==
    LET repository == readRepository(links, ds)
        first == cleanupDone(links, ds, repository)
        second == cleanupDone(linkSet(first.lnk, stableVersionLink, first.mem[experimentVersionLink]),
                              first.dirs,
                              Set(first.mem, stableVersionLink, first.mem[experimentVersionLink]))
    IN IF readFailed(repository) THEN [lnk |-> links, dirs |-> ds]
       ELSE IF \/ ~Exists(first.mem, stableVersionLink)
               \/ ~Exists(first.mem, experimentVersionLink)
               \/ Target(first.mem, stableVersionLink) = Target(first.mem, experimentVersionLink)
            THEN [lnk |-> first.lnk, dirs |-> first.dirs]
            ELSE [lnk |-> second.lnk, dirs |-> second.dirs]

\* The links and directories an uninterrupted DeleteExperiment ends with.
DeleteExperimentDone(links, ds) ==
    LET repository == readRepository(links, ds)
        first == cleanupDone(links, ds, repository)
        second == cleanupDone(linkSet(first.lnk, experimentVersionLink, experimentToStableTarget),
                              first.dirs,
                              Set(first.mem, experimentVersionLink, experimentToStableTarget))
    IN IF readFailed(repository) THEN [lnk |-> links, dirs |-> ds]
       ELSE IF ~Exists(first.mem, stableVersionLink) \/ ~Exists(first.mem, experimentVersionLink)
            THEN [lnk |-> first.lnk, dirs |-> first.dirs]
            ELSE [lnk |-> second.lnk, dirs |-> second.dirs]

\* The call o was interrupted after one of its steps and no other call has
\* started.
InterruptedIn(o) == pc = "idle" /\ op = o /\ ret = Interrupted

\* The directories the links referred to when the call started; an
\* uninterrupted call sweeps every other directory.
startDirs == {pre[l] : l \in LinkNames} \cap Versions

\* C20: PromoteExperiment and DeleteExperiment are idempotent under retry
\* after a crash: running the call again on the state an interrupted call
\* left ends with the links and version directories an uninterrupted call
\* ends with.
C20_RetryConverges ==
    /\ InterruptedIn("PromoteExperiment") =>
          PromoteExperimentDone(lnk, dirs) = PromoteExperimentDone(preLnk, startDirs)
    /\ InterruptedIn("DeleteExperiment") =>
          DeleteExperimentDone(lnk, dirs) = DeleteExperimentDone(preLnk, startDirs)

\* The DeleteExperiment call returned on a repository that had stable = S
\* and a distinct experiment = E, and the hook did not deny E.
DeletedExperiment ==
    /\ Returned("DeleteExperiment") /\ ret = Ok
    /\ pre[stableVersionLink] \in Versions
    /\ pre[experimentVersionLink] \in Versions \ {pre[stableVersionLink]}
    /\ pre[experimentVersionLink] \notin swept.denied

\* C21: after DeleteExperiment returns success on a repository with stable
\* = S and a distinct experiment = E, and no veto of the hook, GetState
\* returns {Stable: S, Experiment: ""}, the stable link is unchanged,
\* directory S exists and directory E no longer exists.
C21_DeleteExperimentRemovesE ==
    DeletedExperiment =>
        /\ GetState = [err |-> FALSE, Stable |-> pre[stableVersionLink], Experiment |-> ""]
        /\ lnk[stableVersionLink] = preLnk[stableVersionLink]
        /\ pre[stableVersionLink] \in dirs
        /\ pre[experimentVersionLink] \notin dirs

\* C21 (amended): the same, when in addition os.RemoveAll did not fail on
\* directory E.
C21_DeleteExperimentSuccess ==
    (DeletedExperiment /\ pre[experimentVersionLink] \notin swept.failed) =>
        /\ GetState = [err |-> FALSE, Stable |-> pre[stableVersionLink], Experiment |-> ""]
        /\ lnk[stableVersionLink] = preLnk[stableVersionLink]
        /\ lnk[experimentVersionLink] = stableVersionLink
        /\ pre[stableVersionLink] \in dirs
        /\ pre[experimentVersionLink] \notin dirs

C21_Witness ==
    /\ DeletedExperiment
    /\ hooked
    /\ swept.pass > 1
    /\ swept.cands = {pre[experimentVersionLink]}
    /\ swept.failed = {}
    /\ dirs = {pre[stableVersionLink]}

\* DeleteExperiment was called on a repository whose experiment link
\* resolves to the version the stable link resolves to.
NoDistinctExperiment ==
    /\ op = "DeleteExperiment"
    /\ pre[stableVersionLink] \in Versions
    /\ pre[experimentVersionLink] = pre[stableVersionLink]

\* C22: DeleteExperiment on a repository without distinct experiment
\* succeeds and leaves GetState and the set of version directories
\* unchanged; a second DeleteExperiment gives the state of the first.
C22_DeleteExperimentNoOp ==
    [][NoDistinctExperiment' =>
          /\ GetState'.Stable = pre'[stableVersionLink]
          /\ GetState'.Experiment = ""
          /\ (op = "DeleteExperiment" => dirs' = dirs)
          /\ (pc' = "idle" => ret' \in {Ok, ErrIO, Interrupted})]_vars

\* C22 (amended): the call succeeds and leaves GetState and the referenced
\* version directory unchanged, while its cleanup removes the directories
\* no link refers to; a second DeleteExperiment changes no link, and no
\* directory either when the first one swept everything.
C22_DeleteExperimentIdempotent ==
    (NoDistinctExperiment /\ Returned("DeleteExperiment") /\ ret # ErrIO) =>
        /\ ret = Ok
        /\ GetState = [err |-> FALSE, Stable |-> pre[stableVersionLink], Experiment |-> ""]
        /\ lnk[stableVersionLink] = preLnk[stableVersionLink]
        /\ pre[stableVersionLink] \in dirs
        /\ DeleteExperimentDone(lnk, dirs).lnk = lnk
        /\ swept.denied \cup swept.failed = {} =>
              /\ dirs = {pre[stableVersionLink]}
              /\ DeleteExperimentDone(lnk, dirs).dirs = dirs

C22_Witness ==
    /\ NoDistinctExperiment /\ Returned("DeleteExperiment") /\ ret = Ok
    /\ preLnk[experimentVersionLink] = preLnk[stableVersionLink]
    /\ lnk[experimentVersionLink] = stableVersionLink
    /\ swept.cands = {}

\* A directory under the root that no link on disk resolves to.
Unreferenced(d) == \A l \in LinkNames : linkRead(lnk, l) # d

\* C23: in a cleanup pass with a pre-remove hook the hook's boolean alone
\* decides: a candidate the hook answered (true, error) for is deleted,
\* one it answered (false, nil) or (false, error) for is kept; a hook error
\* does not end the pass, every candidate is processed and the call returns
\* success.  (A candidate whose os.RemoveAll failed is kept.)  Checked under
\* SpecHook.
C23_HookBooleanDecides ==
    (op = "Cleanup" /\ pc = "idle" /\ swept.pass > 0) =>
        /\ ret = Ok
        /\ \A d \in swept.cands :
              d \in dirs <=> d \in swept.denied \cup swept.failed
        /\ \A d \in dirs : Unreferenced(d) => d \in swept.denied \cup swept.failed

C23_Witness ==
    /\ op = "Cleanup" /\ pc = "idle" /\ ret = Ok
    /\ swept.failed = {}
    /\ \E d \in (swept.cands \ swept.denied) \cap hookErr : d \notin dirs
    /\ \E d \in swept.denied \cap hookErr : d \in dirs
    /\ \E d \in swept.denied \ hookErr : d \in dirs

\* A call that made a cleanup pass has returned, and none of its loud
\* primitives (link write, rename) failed.
ReturnedAfterPass ==
    pc = "idle" /\ swept.pass > 0 /\ ret \notin {Interrupted, ErrIO}

\* The directories the last pass left on disk: the hook denied them or
\* os.RemoveAll failed on them.
undeleted == swept.denied \cup swept.failed

\* The transition of the call that has returned is done: the result is
\* success and the link the call writes holds what the call writes there.
\* The calls are those whose checks pass on the repository they started on.
TransitionDone ==
    /\ op = "Cleanup" => ret = Ok
    /\ (/\ op = "PromoteExperiment"
        /\ pre[stableVersionLink] \in Versions
        /\ pre[experimentVersionLink] \in Versions \ {pre[stableVersionLink]}) =>
          ret = Ok /\ lnk[stableVersionLink] = pre[experimentVersionLink]
    /\ (op = "DeleteExperiment" /\ pre[stableVersionLink] \in Versions) =>
          ret = Ok /\ lnk[experimentVersionLink] = stableVersionLink

\* SetExperiment was called with a name that is valid and not the name of
\* a version the links referred to.
SetExperimentOfNewName ==
    /\ op = "SetExperiment"
    /\ pre[stableVersionLink] \in Versions
    /\ ~invalidName(arg)
    /\ arg \notin {pre[stableVersionLink], pre[experimentVersionLink]}

\* C24: hook vetoes, hook errors and failed removals of single directories
\* in cleanup never make the enclosing call fail: PromoteExperiment,
\* DeleteExperiment, SetExperiment and Cleanup return success and do their
\* link transition; the undeleted directories stay on disk, unreferenced.
C24_CleanupNeverFailsCall ==
    ReturnedAfterPass =>
        /\ TransitionDone
        /\ SetExperimentOfNewName => (ret = Ok /\ lnk[experimentVersionLink] = arg)
        /\ op \in {"Cleanup", "PromoteExperiment", "DeleteExperiment", "SetExperiment"} =>
              \A d \in undeleted : d \in dirs /\ Unreferenced(d)

\* C24 (amended): the same, except that SetExperiment fails with "target
\* package already exists", its links unchanged, when the directory the
\* pass left on disk has the name the call was given.
C24_CleanupFailsOnlyDuplicate ==
    ReturnedAfterPass =>
        /\ TransitionDone
        /\ SetExperimentOfNewName =>
              IF arg \in undeleted
              THEN ret = ErrExists /\ lnk[experimentVersionLink] # arg /\ srcPresent
              ELSE ret = Ok /\ lnk[experimentVersionLink] = arg
        /\ op \in {"Cleanup", "PromoteExperiment", "DeleteExperiment", "SetExperiment"} =>
              \A d \in undeleted : d \in dirs /\ Unreferenced(d)

C24_Witness ==
    /\ ReturnedAfterPass
    /\ op = "PromoteExperiment" /\ ret = Ok
    /\ swept.pass > 1
    /\ pre[stableVersionLink] \in swept.denied
    /\ swept.failed # {}
    /\ lnk[stableVersionLink] = pre[experimentVersionLink]

\* The links as a newLink of each reads them from the disk now.
onDisk == [l \in LinkNames |-> newLink(lnk, dirs, l)]

\* A call has started and has not written to the disk yet.
JustStarted ==
    /\ pc \in {"cleanup", "delExp"}
    /\ swept.pass = 0
    /\ lnk = preLnk

\* C25: no state is kept in memory between calls.  Between calls no
\* snapshot is held; the snapshot a call works on is the one read from the
\* disk when it started; and the links a PromoteExperiment, a
\* DeleteExperiment or a Cleanup ends with are those computed from the
\* links on disk at its start alone.
C25_NoStateBetweenCalls ==
    /\ pc = "idle" => mem = NoMem
    /\ JustStarted => (mem = onDisk /\ pre = onDisk)
    /\ (pc = "idle" /\ ret \in {Ok, ErrNoExperiment, ErrInvalidState}) =>
          /\ op = "PromoteExperiment" => lnk = PromoteExperimentDone(preLnk, startDirs).lnk
          /\ op = "DeleteExperiment" => lnk = DeleteExperimentDone(preLnk, startDirs).lnk
          /\ op = "Cleanup" =>
                lnk = cleanupDone(preLnk, startDirs, [l \in LinkNames |-> newLink(preLnk, startDirs, l)]).lnk

C25_Witness ==
    /\ JustStarted
    /\ op = "SetExperiment"
    /\ mem[stableVersionLink] \in Versions
    /\ mem[experimentVersionLink] \in Versions \ {mem[stableVersionLink]}
    /\ dirs \ {mem[stableVersionLink], mem[experimentVersionLink]} # {}

\* Create returned success on a repository that had stable and experiment
\* versions, and the hook denied no removal.
Reinstalled ==
    /\ Returned("Create") /\ ret = Ok
    /\ pre[stableVersionLink] \in Versions
    /\ swept.denied = {}

Errors == {ErrCorrupt, ErrIO, ErrNoRoot, ErrInvalidState, ErrNoExperiment,
           ErrInvalidName, ErrExists, ErrNotEmpty}

\* The call has ended with the error of a step.
Failed(o) == pc = "idle" /\ op = o /\ ret \in Errors

\* C27: within a call the steps run in the documented order and the first
\* failing step ends the call with its error: a failed move leaves the
\* links as they were, a failed link update in PromoteExperiment or
\* DeleteExperiment skips the second cleanup, and a Create that failed
\* after os.MkdirAll leaves the root directory created.
C27_FirstFailureAborts ==
    /\ ret = Running <=> pc # "idle"
    \* order: the cleanup comes before the move and the link update
    /\ (op \in {"SetExperiment", "Create"} /\ ~srcPresent) => swept.pass = 1
    /\ (op = "PromoteExperiment" /\ swept.pass = 0) =>
          lnk[stableVersionLink] = preLnk[stableVersionLink]
    \* as long as the move is not done, and so after a failed move, the
    \* link is not pointed at the new directory
    /\ (op = "SetExperiment" /\ srcPresent) =>
          /\ lnk[stableVersionLink] = preLnk[stableVersionLink]
          /\ lnk[experimentVersionLink] \in {preLnk[experimentVersionLink], experimentToStableTarget}
    /\ (op = "Create" /\ srcPresent /\ swept.pass > 0) => lnk = NoMem
    \* a failed link update
    /\ Failed("PromoteExperiment") =>
          /\ swept.pass < 2
          /\ lnk[stableVersionLink] = preLnk[stableVersionLink]
    /\ Failed("DeleteExperiment") => swept.pass < 2
    \* a failed Create
    /\ Failed("Create") =>
          \/ rootExists
          \/ ret = ErrIO /\ swept.pass = 0 /\ lnk = NoMem /\ dirs = {}

C27_Witness ==
    /\ Failed("PromoteExperiment") /\ ret = ErrIO
    /\ swept.pass = 1
    /\ pre[stableVersionLink] \in Versions
    /\ pre[experimentVersionLink] \in Versions \ {pre[stableVersionLink]}
    /\ dirs = {pre[stableVersionLink], pre[experimentVersionLink]}

\* C28: in every reachable state no version directory under the root is
\* named "stable" or "experiment" (or has the empty name): no Create and no
\* SetExperiment, with any name, moves a directory in under such a name.
C28_NoReservedDirectory ==
    /\ dirs \cap LinkNames = {}
    /\ "" \notin dirs

C28_Witness ==
    /\ Returned("SetExperiment") /\ ret = ErrInvalidName
    /\ arg = experimentVersionLink
    /\ srcPresent
    /\ pre[stableVersionLink] \in dirs

\* setExperimentToStable has succeeded in the call in progress: in the
\* self-heal of its first cleanup, or as the step of DeleteExperiment.
ExperimentSetToStable ==
    /\ pc \in {"cleanup", "cleanup2", "move", "setStable", "expToStable"}
    /\ \/ op = "DeleteExperiment" /\ pc = "cleanup2"
       \/ /\ preLnk[stableVersionLink] # NoPath
          /\ preLnk[experimentVersionLink] = NoPath
          /\ lnk[experimentVersionLink] # NoPath

\* C29: after setExperimentToStable succeeds the target of the experiment
\* link equals the target of the stable link, in the snapshot the rest of
\* the call uses and when the links are read from the disk again.
C29_ExperimentTargetIsStable ==
    ExperimentSetToStable =>
        /\ Target(mem, experimentVersionLink) = Target(mem, stableVersionLink)
        /\ Resolved(experimentVersionLink) = Resolved(stableVersionLink)

\* C30: PromoteExperiment never modifies the experiment link: when the
\* link existed as the call started, what it holds on disk and what it
\* resolves to are the same during and after the call, on success and on
\* failure.
C30_PromoteKeepsExperiment ==
    (op = "PromoteExperiment" /\ preLnk[experimentVersionLink] # NoPath) =>
        /\ lnk[experimentVersionLink] = preLnk[experimentVersionLink]
        /\ pre[experimentVersionLink] \in Versions =>
              Resolved(experimentVersionLink) = pre[experimentVersionLink]

C30_Witness ==
    /\ Returned("PromoteExperiment") /\ ret = Ok
    /\ preLnk[experimentVersionLink] \in Versions
    /\ lnk[stableVersionLink] # preLnk[stableVersionLink]
    /\ lnk[experimentVersionLink] = preLnk[experimentVersionLink]

\* The call in progress has made a cleanup pass and has written nothing
\* since: its snapshot is the one the pass worked on.
AfterPass ==
    pc \in {"move", "setStable", "expToStable", "rmRoot"} /\ swept.pass > 0 /\ srcPresent

\* The call has returned from its last cleanup pass.
ReturnedFromPass ==
    /\ pc = "idle" /\ ret = Ok /\ swept.pass > 0
    /\ op \in {"PromoteExperiment", "DeleteExperiment", "Cleanup"}

\* The hook was asked about the candidates, and os.RemoveAll called on
\* those it did not deny; without hook, on all of them.
HookAsked ==
    /\ swept.denied \subseteq swept.cands
    /\ swept.failed \subseteq swept.cands \ swept.denied
    /\ \A d \in swept.cands : ~isLink(d)
    /\ swept.cands \cap dirs = swept.denied \cup swept.failed
    /\ ~hooked => swept.denied = {}

\* C31: in a cleanup pass the hook is asked once for each candidate, the
\* entries of the root that are neither a link nor the directory a link
\* refers to, and for no other entry; without a hook os.RemoveAll is
\* called on every candidate.
C31_HookAskedForCandidates ==
    /\ AfterPass =>
          /\ HookAsked
          /\ \A d \in swept.cands : ~isStable(mem, d) /\ ~isExperiment(mem, d)
          /\ \A d \in dirs : d \in swept.cands \/ isStable(mem, d) \/ isExperiment(mem, d)
    /\ ReturnedFromPass =>
          /\ HookAsked
          /\ \A d \in swept.cands : Unreferenced(d)
          /\ \A d \in dirs : d \in swept.cands \/ ~Unreferenced(d)

C31_Witness ==
    /\ AfterPass
    /\ hooked
    /\ swept.denied # {}
    /\ isStable(mem, pre[stableVersionLink])
    /\ isExperiment(mem, pre[experimentVersionLink])
    /\ pre[experimentVersionLink] # pre[stableVersionLink]

\* A second caller starts a Cleanup on the same root: readRepository.
otherCleanup ==
    /\ pc2 = "idle"
    /\ ~readFailed(readRepository(lnk, dirs))
    /\ pc2' = "cleanup"
    /\ mem2' = readRepository(lnk, dirs)
    /\ UNCHANGED <<rootExists, dirs, lnk, hooked, hookErr, pc, op, arg, mem, pre, preLnk,
                   ret, srcPresent, swept, inflight, orphan>>

\* The second caller's cleanup, on the snapshot it read and the entries
\* the root has now; no removal is denied and none fails.
otherCleanupSweep ==
    /\ pc2 = "cleanup"
    /\ lnk' = cleanupDone(lnk, dirs, mem2).lnk
    /\ dirs' = cleanupDone(lnk, dirs, mem2).dirs
    /\ pc2' = "idle"
    /\ mem2' = NoMem
    /\ UNCHANGED <<rootExists, hooked, hookErr, pc, op, arg, mem, pre, preLnk,
                   ret, srcPresent, swept, inflight, orphan>>

\* A repository with both links, as Create and later calls leave it, and
\* no hook.
InitRace ==
    /\ hooked = FALSE
    /\ hookErr = {}
    /\ rootExists = TRUE
    /\ dirs \in SUBSET Versions
    /\ lnk \in [LinkNames -> Versions \cup LinkNames \cup {NoPath}]
    /\ lnk[stableVersionLink] \in dirs
    /\ lnk[experimentVersionLink] \in dirs \cup {stableVersionLink}
    /\ pc = "idle"
    /\ op = "none"
    /\ arg = ""
    /\ mem = NoMem
    /\ pre = NoMem
    /\ preLnk = NoMem
    /\ ret = Ok
    /\ srcPresent = TRUE
    /\ swept = NoSweep
    /\ inflight = NoPath
    /\ orphan = NoPath
    /\ pc2 = "idle"
    /\ mem2 = NoMem

NextRace ==
    \/ \E name \in ArgNames : SetExperiment(name)
    \/ cleanupSweep
    \/ movePackageFromSource
    \/ linkSetStep
    \/ otherCleanup
    \/ otherCleanupSweep

\* SetExperiment calls of one caller and Cleanup calls of another, their
\* filesystem steps interleaved.
SpecRace == InitRace /\ [][NextRace]_vars

Dangling(l) == lnk[l] \in Versions \ dirs

\* C32: when a second caller's Cleanup interleaves with the steps of
\* SetExperiment calls, the experiment link can come to reference a missing
\* directory, and it does so in two ways only: the second caller's pass
\* removes the linked directory on a snapshot older than the link, or
\* SetExperiment writes the link after the second caller's pass removed the
\* directory it had moved in. The stable link, which no call rewrites
\* here, keeps its directory.
C32_RaceLosesInflight ==
    [][/\ ~Dangling(stableVersionLink)'
       /\ (~Dangling(experimentVersionLink) /\ Dangling(experimentVersionLink)') =>
             \/ /\ pc2 = "cleanup" /\ pc2' = "idle"
                /\ mem2[experimentVersionLink] # readRepository(lnk, dirs)[experimentVersionLink]
                /\ lnk' = lnk
             \/ /\ op = "SetExperiment" /\ pc = "setLink" /\ pc' = "idle" /\ ret' = Ok
                /\ arg \notin dirs
                /\ lnk'[experimentVersionLink] = arg
                /\ dirs' = dirs]_vars

\* The second caller's pass has removed the directory a SetExperiment
\* moved in, before SetExperiment writes the link to it.
C32_Witness ==
    /\ op = "SetExperiment" /\ pc = "setLink"
    /\ ~srcPresent
    /\ inflight = arg
    /\ arg \notin dirs
    /\ pc2 = "idle"

\* C33: from an absent repository on, between the filesystem steps of the
\* calls as well, the experiment link exists only if the stable link
\* exists; GetState never returns an empty Stable with a non-empty
\* Experiment: what it returns is the empty state, a Stable alone, or a
\* Stable with an Experiment different from it.
C33_ExperimentOnlyWithStable ==
    /\ lnk[experimentVersionLink] # NoPath => lnk[stableVersionLink] # NoPath
    /\ GetState.Experiment # "" => GetState.Stable # ""
    /\ \/ GetState.err
       \/ GetState = EmptyState
       \/ GetState.Stable \in Versions /\ GetState.Experiment = ""
       \/ /\ GetState.Stable \in Versions
          /\ GetState.Experiment \in Versions \ {GetState.Stable}

\* Create or Delete on a repository with an experiment has deleted the
\* experiment link and not yet the stable link.
C33_Witness ==
    /\ op \in {"Create", "Delete"} /\ pc = "delStable"
    /\ pre[experimentVersionLink] \in Versions \ {pre[stableVersionLink]}
    /\ lnk[experimentVersionLink] = NoPath
    /\ lnk[stableVersionLink] \in dirs

\* C34: during SetExperiment, PromoteExperiment, DeleteExperiment and
\* Cleanup started on a repository whose stable link references an existing
\* directory, the stable link exists and references an existing directory
\* at every step of the call and when it has returned.
C34_StableThroughout ==
    (/\ op \in {"SetExperiment", "PromoteExperiment", "DeleteExperiment", "Cleanup"}
     /\ pre[stableVersionLink] \in Versions) =>
        /\ lnk[stableVersionLink] # NoPath
        /\ Resolved(stableVersionLink) \in dirs

\* Create, PromoteExperiment, DeleteExperiment or Cleanup returned success,
\* no hook is registered and no os.RemoveAll of its last pass failed.
CleanReturn ==
    /\ pc = "idle" /\ ret = Ok
    /\ op \in {"Create", "PromoteExperiment", "DeleteExperiment", "Cleanup"}
    /\ ~hooked
    /\ swept.failed = {}

\* C35: after a successful Create, PromoteExperiment, DeleteExperiment or
\* Cleanup with no registered hook and no removal failure, every version
\* directory under the root is referenced by the stable or the experiment
\* link, so the root holds at most two version directories.
C35_NoGarbageRemains ==
    CleanReturn =>
        /\ \A d \in dirs : ~Unreferenced(d)
        /\ Cardinality(dirs) <= 2

\* The call started with garbage next to two referenced versions and its
\* pass removed the garbage.
C35_Witness ==
    /\ CleanReturn
    /\ Cardinality(dirs) = 2
    /\ swept.cands # {}

\* SetExperiment runs on a repository with stable = S and a distinct
\* experiment = E.
ReplacingExperiment ==
    /\ op = "SetExperiment"
    /\ pre[stableVersionLink] \in Versions
    /\ pre[experimentVersionLink] \in Versions \ {pre[stableVersionLink]}

\* C36: SetExperiment called while a distinct experiment E exists does not
\* remove directory E in the same call: E stays on disk, unreferenced once
\* the call has pointed the experiment link at the new version, and the
\* first cleanup pass of a later call removes it.
C36_OldExperimentRemovedNext ==
    [][/\ ReplacingExperiment' => pre'[experimentVersionLink] \in dirs'
       /\ (ReplacingExperiment' /\ pc' = "idle" /\ ret' = Ok) =>
             /\ orphan' = pre'[experimentVersionLink]
             /\ Unreferenced(orphan)'
       /\ (Pass /\ orphan # NoPath) => orphan \notin dirs']_vars

\* C36 (amended): the same, except that the pass of the later call leaves E
\* on disk when the hook denies the removal or os.RemoveAll fails on it.
C36_OldExperimentSweptNext ==
    [][/\ ReplacingExperiment' => pre'[experimentVersionLink] \in dirs'
       /\ (ReplacingExperiment' /\ pc' = "idle" /\ ret' = Ok) =>
             /\ orphan' = pre'[experimentVersionLink]
             /\ Unreferenced(orphan)'
       /\ (Pass /\ orphan # NoPath) =>
             /\ orphan \in dirs
             /\ orphan \in swept'.cands
             /\ orphan \in dirs' <=> orphan \in swept'.denied \cup swept'.failed]_vars

\* A call after the SetExperiment is at its first pass, the old experiment
\* directory still on disk next to the two linked versions.
C36_Witness ==
    /\ pc = "cleanup" /\ ~needsMigration
    /\ op \in {"PromoteExperiment", "DeleteExperiment", "Cleanup", "SetExperiment"}
    /\ orphan \in dirs
    /\ mem[stableVersionLink] \in dirs \ {orphan}
    /\ mem[experimentVersionLink] \in dirs \ {orphan, mem[stableVersionLink]}

\* Create, called on a repository with a stable version, ran its cleanup
\* pass and failed at its move step or at a step after it.
CreateFailedLate ==
    /\ Failed("Create")
    /\ pre[stableVersionLink] \in Versions
    /\ swept.pass > 0
    /\ ret \in {ErrInvalidName, ErrExists, ErrIO}

\* C37: when Create on an existing repository fails at or after its move
\* step, both links have been deleted and the directories they referenced
\* have been swept; GetState returns the empty state.
C37_FailedCreateLeavesEmpty ==
    CreateFailedLate =>
        /\ lnk = [l \in LinkNames |-> NoPath]
        /\ startDirs \subseteq swept.cands
        /\ GetState = EmptyState

\* C37 (amended): the same when Create fails at its move step or at the
\* write of the stable link; when it fails at the last step, the write of
\* the experiment link, the stable link references the new version and
\* GetState returns it as Stable. A directory the links referenced is gone
\* unless the hook denied its removal, os.RemoveAll failed on it, or it has
\* the name of the version moved in.
C37_FailedCreateNotRestored ==
    CreateFailedLate =>
        /\ lnk[experimentVersionLink] = NoPath
        /\ startDirs \subseteq swept.cands
        /\ \A d \in startDirs \cap dirs : d \in undeleted \/ (d = arg /\ ~srcPresent)
        /\ IF ~srcPresent /\ inflight = NoPath
           THEN /\ lnk[stableVersionLink] = arg
                /\ GetState = [err |-> FALSE, Stable |-> arg, Experiment |-> ""]
           ELSE /\ lnk[stableVersionLink] = NoPath
                /\ GetState = EmptyState

\* Create failed with "target package already exists" on the directory of
\* the previous stable version, which the hook did not let the pass remove.
C37_Witness ==
    /\ CreateFailedLate /\ ret = ErrExists
    /\ hooked
    /\ arg = pre[stableVersionLink]
    /\ arg \in swept.denied
    /\ GetState = EmptyState

\* The calls other than Create that read or change the repository's files.
NotCreate == {"Cleanup", "Delete", "SetExperiment", "PromoteExperiment", "DeleteExperiment"}

\* C38: on a root that does not exist, Cleanup, Delete, SetExperiment,
\* PromoteExperiment and DeleteExperiment change nothing on disk, move no
\* source directory, and end with the error of the listing of the root;
\* only Create creates the root directory.
C38_AbsentRootOnlyCreateCreates ==
    [][/\ (~rootExists /\ rootExists') => (pc = "idle" /\ op' = "Create")
       /\ (~rootExists /\ op' \in NotCreate) =>
             /\ disk' = disk
             /\ srcPresent'
             /\ pc' \in {"idle", "delExp", "delStable", "cleanup"}
             /\ (pc' = "idle" /\ pc # "idle") => ret' \in {ErrNoRoot, Interrupted}]_vars

\* SetExperiment on an absent root has returned the listing error.
C38_Witness ==
    /\ Returned("SetExperiment") /\ ret = ErrNoRoot
    /\ ~rootExists
    /\ srcPresent
    /\ ~invalidName(arg)

\* A repository as readRepository loads it: link values on which the
\* methods of link are called.
InitLink ==
    /\ hooked = FALSE
    /\ hookErr = {}
    /\ rootExists = TRUE
    /\ dirs \in SUBSET Versions
    /\ lnk \in [LinkNames -> Versions \cup LinkNames \cup {NoPath}]
    /\ ~readFailed(readRepository(lnk, dirs))
    /\ mem = readRepository(lnk, dirs)
    /\ pre = mem
    /\ preLnk = lnk
    /\ pc = "idle"
    /\ op = "none"
    /\ arg = ""
    /\ ret = Ok
    /\ srcPresent = TRUE
    /\ swept = NoSweep
    /\ inflight = NoPath
    /\ orphan = NoPath
    /\ pc2 = "idle"
    /\ mem2 = NoMem

\* link.Set(path) on the link l: linkSet, then the packagePath.
linkSetMethod(l, path) ==
    /\ op' = "link.Set"
    /\ arg' = path
    /\ pre' = mem
    /\ preLnk' = lnk
    /\ \E setOk \in BOOLEAN :
          IF setOk
          THEN /\ lnk' = linkSet(lnk, l, path)
               /\ mem' = Set(mem, l, path)
               /\ ret' = Ok
          ELSE /\ ret' = ErrIO
               /\ UNCHANGED <<lnk, mem>>
    /\ UNCHANGED <<rootExists, dirs, hooked, hookErr, pc, srcPresent, swept, inflight, orphan,
                   pc2, mem2>>

\* link.Delete() on the link l, which the callers call on a link that
\* exists: linkDelete, then the packagePath.
linkDeleteMethod(l) ==
    /\ Exists(mem, l)
    /\ op' = "link.Delete"
    /\ arg' = ""
    /\ pre' = mem
    /\ preLnk' = lnk
    /\ \E deleteOk \in BOOLEAN :
          IF deleteOk
          THEN /\ lnk' = linkDelete(lnk, l)
               /\ mem' = Deleted(mem, l)
               /\ ret' = Ok
          ELSE /\ ret' = ErrIO
               /\ UNCHANGED <<lnk, mem>>
    /\ UNCHANGED <<rootExists, dirs, hooked, hookErr, pc, srcPresent, swept, inflight, orphan,
                   pc2, mem2>>

NextLink ==
    \/ \E l \in LinkNames : \E path \in Versions \cup {stableVersionLink} : linkSetMethod(l, path)
    \/ \E l \in LinkNames : linkDeleteMethod(l)

\* The methods of link applied, in any order, to loaded link values.
SpecLink == InitLink /\ [][NextLink]_vars

\* The method changed the link l, in memory and on disk, and no other.
OnlyLink(l) ==
    \A k \in LinkNames \ {l} : mem[k] = pre[k] /\ lnk[k] = preLnk[k]

\* C39: for a link value, Exists() is true exactly when a target is loaded
\* and Target() is then its base name, the empty string otherwise; Set
\* stores its path in memory when the replace on disk succeeded and Delete
\* clears it when the unlink succeeded; when the primitive failed the link
\* in memory is as it was, as is the link on disk.
C39_LinkFollowsPrimitive ==
    /\ \A l \in LinkNames :
          /\ Exists(mem, l) <=> mem[l] \in Versions \cup LinkNames
          /\ Target(mem, l) = IF Exists(mem, l) THEN mem[l] ELSE ""
          /\ Exists(mem, l) <=> lnk[l] # NoPath
    /\ op = "none" => \A l \in LinkNames : Exists(mem, l) => Target(mem, l) = Resolved(l)
    /\ ret = ErrIO => (mem = pre /\ lnk = preLnk)
    /\ (op = "link.Set" /\ ret = Ok) =>
          \E l \in LinkNames :
             /\ Exists(mem, l) /\ Target(mem, l) = arg
             /\ lnk[l] = arg
             /\ OnlyLink(l)
    /\ (op = "link.Delete" /\ ret = Ok) =>
          \E l \in LinkNames :
             /\ Exists(pre, l)
             /\ ~Exists(mem, l) /\ Target(mem, l) = ""
             /\ lnk[l] = NoPath
             /\ OnlyLink(l)

\* A Set failed on link values that earlier calls of Set and Delete had
\* changed.
C39_Witness ==
    /\ op = "link.Set" /\ ret = ErrIO
    /\ Exists(mem, stableVersionLink) /\ ~Exists(mem, experimentVersionLink)
    /\ Target(mem, stableVersionLink) \in Versions
    /\ Target(mem, stableVersionLink) \notin dirs
====
